---- MODULE Spec2Model ----
(***************************************************************************)
(* Model of the command-tree executor of src/cmd.c: parse_command and its  *)
(* helpers parse_simple, run_in_parallel and run_on_pipe, with the         *)
(* processes they fork, the pipes they create and the statuses they        *)
(* return.                                                                 *)
(*                                                                         *)
(* Every process holds its own copy of the C call stack (one frame per     *)
(* tree node being evaluated by parse_command); fork copies the stack, so  *)
(* a child that executes `return` instead of `exit` continues in a copy of *)
(* its creator's frames.                                                   *)
(***************************************************************************)
EXTENDS Integers, Sequences, FiniteSets, TLC

\* ------------------------------------------------------------- bounds ----
\* Size of the process table: fork fails (EAGAIN) when it is full.
MaxProcs == 6
\* Number of pipes the system can give out: pipe fails (ENFILE) beyond it.
MaxPipes == 2
\* Number of injected system-call failures (fork, waitpid, pipe, open, dup2,
\* execvp) in one run.
MaxFaults == 1

\* ---------------------------------------------------------- constants ----
\* cmd.h (not part of the sources at hand) defines the terminate sentinel;
\* all that is used of it is that it is neither 0 nor 1.
SHELL_EXIT == -100

READ == 0
WRITE == 1

\* char path[1024] of shell_cd
PATH_SIZE == 1024

\* parser.h (not part of the sources at hand) defines the bits of io_flags: no
\* flag, append to the stdout target, append to the stderr target.
IO_REGULAR == 0
IO_OUT_APPEND == 1
IO_ERR_APPEND == 2

\* A null pointer where a word is expected.
NULL == "(null)"

Pids == 1..MaxProcs

\* -------------------------------------------------------------- trees ----
\* simple_command_t: the verb, the parameters (for cd: the directory), the three
\* redirection targets (NULL or a path) and io_flags, each word already expanded
\* as get_word returns it.
SimpleCommand(verb, params, in, out, err, io_flags) ==
    [op |-> "OP_NONE",
     scmd |-> [verb |-> verb, params |-> params, in |-> in, out |-> out, err |-> err,
               io_flags |-> io_flags]]

\* A simple command with at most an input redirection.
Simple(verb, in) ==
    SimpleCommand(verb, NULL, IF in THEN "in" ELSE NULL, NULL, NULL, IO_REGULAR)

\* command_t with an operator and two sub-commands.
Command(op, c1, c2) == [op |-> op, cmd1 |-> c1, cmd2 |-> c2]

Operators ==
    {"OP_SEQUENTIAL", "OP_PARALLEL", "OP_CONDITIONAL_NZERO", "OP_CONDITIONAL_ZERO", "OP_PIPE"}

\* Operators evaluated in the calling process, and operators that fork.
InProcessOps == {"OP_SEQUENTIAL", "OP_CONDITIONAL_NZERO", "OP_CONDITIONAL_ZERO"}

\* Leaves of the input trees: the terminate built-in and an external command
\* that declares an input redirection.
Leaves == {Simple("exit", FALSE), Simple("prog", TRUE)}

Trees1 == {Command(op, a, b) : op \in Operators, a \in Leaves, b \in Leaves}

\* Two operators evaluated in the calling process, nested on the left or on the
\* right, one of the three leaves being `exit`.
LeafTriples ==
    {x \in Leaves \X Leaves \X Leaves :
        Cardinality({i \in 1..3 : x[i].scmd.verb = "exit"}) = 1}

Trees2 ==
    {Command(x[1], Command(x[2], x[3][1], x[3][2]), x[3][3]) :
        x \in InProcessOps \X InProcessOps \X LeafTriples}
    \cup
    {Command(x[1], x[3][1], Command(x[2], x[3][2], x[3][3])) :
        x \in InProcessOps \X InProcessOps \X LeafTriples}

\* A forking operator as the first command of a sequence.
Trees3 ==
    {Command("OP_SEQUENTIAL",
             Command(op, Simple("prog", TRUE), Simple("exit", FALSE)),
             Simple("prog", TRUE)) : op \in Operators \ InProcessOps}

\* A word of n characters.
RECURSIVE Repeat(_, _)
Repeat(ch, n) ==
    IF n = 0 THEN ""
    ELSE IF n % 2 = 0 THEN LET half == Repeat(ch, n \div 2) IN half \o half
    ELSE ch \o Repeat(ch, n - 1)

\* The arguments of cd: none, a directory below the working directory, the
\* root, a name that does not exist, an absolute path that does not exist, and
\* a name as long as path[] of shell_cd.
CdParams == {NULL, "d", "/", "x", "/d", Repeat("x", PATH_SIZE)}

CdLeaves ==
    {SimpleCommand("cd", d, in, out, err, IO_REGULAR) :
        d \in CdParams, in \in {NULL, "i"}, out \in {NULL, "o"}, err \in {NULL, "e"}}

\* exit and quit, with and without an argument and a redirection.
TerminateLeaves ==
    {SimpleCommand(v, a, NULL, out, NULL, IO_REGULAR) :
        v \in {"exit", "quit"}, a \in {NULL, "1"}, out \in {NULL, "o"}}

\* Verbs with a '='.
AssignVerbs == {"a=b", "a=b=c", "a==b", "a=", "=b", "="}

AssignLeaves ==
    {SimpleCommand(v, NULL, NULL, NULL, NULL, IO_REGULAR) : v \in AssignVerbs}

\* The values of io_flags.
IoFlags ==
    {IO_REGULAR, IO_OUT_APPEND, IO_ERR_APPEND, IO_OUT_APPEND + IO_ERR_APPEND}

\* External commands with output redirections: stderr to the path of stdout,
\* to another path, or not redirected.
ExternalLeaves ==
    {SimpleCommand("prog", NULL, NULL, out, err, fl) :
        out \in {NULL, "o"}, err \in {NULL, "o", "e"}, fl \in IoFlags}

\* An assignment before an external command, and before a Parallel or Pipe
\* node with an assignment in a branch.
EnvTrees ==
    {Command("OP_SEQUENTIAL", SimpleCommand("a=b", NULL, NULL, NULL, NULL, IO_REGULAR),
             Simple("prog", FALSE))}
    \cup
    {Command("OP_SEQUENTIAL", SimpleCommand("a=b", NULL, NULL, NULL, NULL, IO_REGULAR),
             Command(op, SimpleCommand("a=c", NULL, NULL, NULL, NULL, IO_REGULAR),
                     Simple("prog", FALSE))) : op \in Operators \ InProcessOps}

SimpleTrees == CdLeaves \cup TerminateLeaves \cup AssignLeaves \cup ExternalLeaves \cup EnvTrees

Trees == Leaves \cup Trees1 \cup Trees2 \cup Trees3 \cup SimpleTrees

\* The node of tree t at path (a sequence of 1 = cmd1 and 2 = cmd2).
RECURSIVE GetNode(_, _)
GetNode(t, path) ==
    IF path = <<>> THEN t
    ELSE GetNode(IF Head(path) = 1 THEN t.cmd1 ELSE t.cmd2, Tail(path))

RECURSIVE NodePaths(_)
NodePaths(t) ==
    IF t.op = "OP_NONE" THEN {<<>>}
    ELSE {<<>>} \cup {<<1>> \o q : q \in NodePaths(t.cmd1)}
                \cup {<<2>> \o q : q \in NodePaths(t.cmd2)}

IsPrefix(a, b) == Len(a) <= Len(b) /\ SubSeq(b, 1, Len(a)) = a

\* ---------------------------------------------------------- directories ----
\* The directories that exist, and the one the shell starts in.
Dirs == {"/", "/w", "/w/d"}
StartDir == "/w"

\* -------------------------------------------------------------- state ----
VARIABLES
    tree,       \* the command tree handed to parse_command (never mutated)
    proc,       \* the process table: pid -> process
    pipes,      \* the pipes created so far: for each, the pid that called pipe
    faults,     \* system-call failures injected so far
    evalCount   \* per node: calls of parse_command on it, all processes counted

vars == <<tree, proc, pipes, faults, evalCount>>

\* A wait status: WIFEXITED and WEXITSTATUS.
Status(exited, code) == [exited |-> exited, code |-> code]

\* The raw status word is zero exactly for a normal exit with code 0.
StatusIsZero(s) == s.exited /\ s.code = 0

\* One activation of parse_command (with the helper it calls) on a node.
\* r1 and r2 remember what the calls on cmd1 and cmd2 returned, env0 and cwd0
\* the environment and the working directory of the process when it was called.
Frame(path) ==
    [path |-> path, pc |-> "start", r |-> 0,
     pid |-> 0, pid_left |-> 0, pid_right |-> 0,
     fd |-> 0, status |-> Status(TRUE, 0),
     r1 |-> <<>>, r2 |-> <<>>, env0 |-> {}, cwd0 |-> NULL]

FreeProc ==
    [st |-> "free", stack |-> <<>>, fds |-> {}, stdin |-> 0, stdout |-> 0,
     parent |-> 0, born |-> <<>>, kind |-> "none", role |-> "none",
     status |-> Status(TRUE, 0), result |-> 0, waited |-> FALSE, evals |-> <<>>,
     env |-> {}, cwd |-> NULL, opens |-> <<>>,
     files |-> [in |-> <<>>, out |-> <<>>, err |-> <<>>]]

ZeroEvals(t) == [n \in NodePaths(t) |-> 0]

\* The state when parse_command is called on the root of one of `trees`, with
\* `used` of the injected failures already spent.
InitFor(trees, used) ==
    /\ tree \in trees
    /\ proc = [p \in Pids |->
                IF p = 1
                THEN [FreeProc EXCEPT !.st = "run",
                                      !.stack = <<[Frame(<<>>) EXCEPT !.cwd0 = StartDir]>>,
                                      !.kind = "shell", !.cwd = StartDir,
                                      !.evals = [ZeroEvals(tree) EXCEPT ![<<>>] = 1]]
                ELSE FreeProc]
    /\ pipes = <<>>
    /\ faults = used
    /\ evalCount = [ZeroEvals(tree) EXCEPT ![<<>>] = 1]

Init == InitFor(Trees, 0)

\* ------------------------------------------------------------ helpers ----
Top(p) == proc[p].stack[Len(proc[p].stack)]
Node(p) == GetNode(tree, Top(p).path)
SetTop(stack, f) == [stack EXCEPT ![Len(stack)] = f]
Running(p) == proc[p].st = "run" /\ proc[p].stack # <<>>
At(p, pc) == Running(p) /\ Top(p).pc = pc

FreePids == {q \in Pids : proc[q].st = "free"}
NewPid == CHOOSE q \in FreePids : \A o \in FreePids : q <= o

Alive(p) == proc[p].st \in {"run", "prog", "driver"}
Terminated(p) == proc[p].st \in {"zombie", "reaped"}

\* A system call fails either by an injected failure or, for fork and pipe,
\* because the resource is exhausted.
Fails(exhausted) ==
    IF exhausted THEN UNCHANGED faults
    ELSE faults < MaxFaults /\ faults' = faults + 1

\* `return v` from parse_command in the top frame.
Return(f, v) == [f EXCEPT !.pc = "ret", !.r = v]

\* exit(v): the process ends, its descriptors are closed, its creator can reap it.
ExitProcess(pr, v) ==
    [pr EXCEPT !.st = "zombie", !.stack = <<>>, !.fds = {}, !.stdin = 0, !.stdout = 0,
               !.evals = <<>>, !.status = Status(TRUE, v % 256),
               !.env = {}, !.cwd = NULL, !.opens = <<>>,
               !.files = [in |-> <<>>, out |-> <<>>, err |-> <<>>]]

\* End of a process by a signal.
KillProcess(pr) ==
    [pr EXCEPT !.st = "zombie", !.stack = <<>>, !.fds = {}, !.stdin = 0, !.stdout = 0,
               !.evals = <<>>, !.status = Status(FALSE, 0),
               !.env = {}, !.cwd = NULL, !.opens = <<>>,
               !.files = [in |-> <<>>, out |-> <<>>, err |-> <<>>]]

\* Mutant of Child: the child starts with an empty environment.
Child_FreshEnv(p, childFrame, kind) ==
    [proc[p] EXCEPT !.stack = SetTop(@, childFrame), !.parent = p,
                    !.born = Top(p).path, !.kind = kind, !.role = childFrame.pc,
                    !.waited = FALSE, !.opens = <<>>, !.env = {}]

\* The child made by fork in process p: a copy of p whose top frame is
\* childFrame. kind, born and role remember which fork made it.
Child(p, childFrame, kind) ==
    [proc[p] EXCEPT !.stack = SetTop(@, childFrame), !.parent = p,
                    !.born = Top(p).path, !.kind = kind, !.role = childFrame.pc,
                    !.waited = FALSE, !.opens = <<>>]

\* Push the activation of parse_command on sub-command k of the top frame's node.
Call(pr, f, k) ==
    [pr EXCEPT !.stack = Append(SetTop(@, f),
                                [Frame(Append(f.path, k)) EXCEPT !.env0 = pr.env,
                                                                 !.cwd0 = pr.cwd]),
               !.evals[Append(f.path, k)] = @ + 1]

Counted(path) == evalCount' = [evalCount EXCEPT ![path] = @ + 1]

\* ------------------------------------------------------ parse_command ----
\* parse_command on a Sequential or Conditional node: evaluate cmd1 first.
parse_command_cmd1(p) ==
    /\ At(p, "start")
    /\ Node(p).op \in InProcessOps
    /\ proc' = [proc EXCEPT ![p] = Call(@, [Top(p) EXCEPT !.pc = "cmd1"], 1)]
    /\ Counted(Append(Top(p).path, 1))
    /\ UNCHANGED <<tree, pipes, faults>>

\* Mutant of RunsCmd2: the conditions of the two Conditional operators swapped.
RunsCmd2_Swapped(op, v) ==
    CASE op = "OP_SEQUENTIAL" -> TRUE
      [] op = "OP_CONDITIONAL_NZERO" -> v = 0
      [] op = "OP_CONDITIONAL_ZERO" -> v # 0

\* Mutant of RunsCmd2: a Sequential stops when cmd1 returns the terminate sentinel.
RunsCmd2_StopOnExit(op, v) ==
    CASE op = "OP_SEQUENTIAL" -> v # SHELL_EXIT
      [] op = "OP_CONDITIONAL_NZERO" -> v # 0
      [] op = "OP_CONDITIONAL_ZERO" -> v = 0

\* Whether cmd2 is evaluated once cmd1 has returned v under operator op.
RunsCmd2(op, v) ==
    CASE op = "OP_SEQUENTIAL" -> TRUE
      [] op = "OP_CONDITIONAL_NZERO" -> v # 0
      [] op = "OP_CONDITIONAL_ZERO" -> v = 0

\* What the frame g of the caller does with the value v that a call of
\* parse_command made from it has returned.
Resume(pr, g, v) ==
    CASE g.pc = "cmd1" ->
            IF RunsCmd2(GetNode(tree, g.path).op, v)
            THEN Call(pr, [g EXCEPT !.pc = "cmd2", !.r = v, !.r1 = <<v>>], 2)
            ELSE [pr EXCEPT !.stack = SetTop(@, [Return(g, v) EXCEPT !.r1 = <<v>>])]
      [] g.pc = "cmd2" ->
            [pr EXCEPT !.stack = SetTop(@, [Return(g, v) EXCEPT !.r2 = <<v>>])]
      [] g.pc = "branch" ->
            \* int r = parse_command(...); exit(r); in a forked branch
            ExitProcess(pr, v)

\* `return r` of parse_command: the activation ends and its caller resumes. With
\* no caller left in this process, the value goes to the caller of parse_command
\* on the root.
parse_command_return(p) ==
    /\ At(p, "ret")
    /\ LET v == Top(p).r
           rest == SubSeq(proc[p].stack, 1, Len(proc[p].stack) - 1)
           popped == [proc[p] EXCEPT !.stack = rest]
       IN  /\ proc' = [proc EXCEPT ![p] =
                        IF rest = <<>>
                        THEN [popped EXCEPT !.st = "driver", !.result = v]
                        ELSE Resume(popped, rest[Len(rest)], v)]
           /\ evalCount' =
                IF rest # <<>> /\ rest[Len(rest)].pc = "cmd1"
                   /\ RunsCmd2(GetNode(tree, rest[Len(rest)].path).op, v)
                THEN [evalCount EXCEPT ![Append(rest[Len(rest)].path, 2)] = @ + 1]
                ELSE evalCount
    /\ UNCHANGED <<tree, pipes, faults>>

\* ------------------------------------------------------- parse_simple ----
IsTerminate(verb) == verb \in {"exit", "quit"}

\* shell_exit
shell_exit == SHELL_EXIT

\* The exit/quit built-in, run in the calling process.
parse_simple_exit(p) ==
    /\ At(p, "start")
    /\ Node(p).op = "OP_NONE"
    /\ IsTerminate(Node(p).scmd.verb)
    /\ proc' = [proc EXCEPT ![p].stack = SetTop(@, Return(Top(p), shell_exit))]
    /\ UNCHANGED <<tree, pipes, faults, evalCount>>

\* ----------------------------------------------------------- shell_cd ----
\* A path as the file system looks it up: repeated '/' count as one.
RECURSIVE Normalize(_)
Normalize(path) ==
    IF Len(path) < 2 THEN path
    ELSE LET half == Len(path) \div 2
             l == Normalize(SubSeq(path, 1, half))
             r == Normalize(SubSeq(path, half + 1, Len(path)))
         IN  IF SubSeq(l, Len(l), Len(l)) = "/" /\ Head(r) = "/"
             THEN l \o Tail(r)
             ELSE l \o r

\* The directory that chdir(path) looks up in a process whose working
\* directory is cwd.
Lookup(cwd, path) ==
    Normalize(IF Head(path) = "/" THEN path ELSE cwd \o "/" \o path)

\* chdir(path) succeeds
ChdirOk(cwd, path) == Lookup(cwd, path) \in Dirs

\* strcat(path, "/"); strcat(path, word); writes behind the end of path[] when
\* the working directory, the '/', the word and the final 0 need more than
\* PATH_SIZE bytes.
Overflows(cwd, word) == Len(cwd) + 1 + Len(word) + 1 > PATH_SIZE

\* What shell_cd(dir) can do in a process whose working directory is cwd:
\* the set of <<result, working directory afterwards, outcome>>, outcome being
\* "ok" (no call fails by itself), "getcwd" (getcwd fails) or "overflow" (the
\* behaviour after the write behind path[] is undefined: the function may
\* return either value, or the process is killed).
shell_cd(cwd, dir) ==
    IF dir = NULL THEN {<<TRUE, cwd, "ok">>}
    ELSE IF ChdirOk(cwd, dir) THEN {<<TRUE, Lookup(cwd, dir), "ok">>}
    ELSE {<<FALSE, cwd, "getcwd">>}
         \cup
         (IF Overflows(cwd, dir)
          THEN {<<TRUE, cwd, "overflow">>, <<FALSE, cwd, "overflow">>,
                <<FALSE, cwd, "killed">>}
          ELSE LET path == cwd \o "/" \o dir IN
               IF ChdirOk(cwd, path) THEN {<<TRUE, Lookup(cwd, path), "ok">>}
               ELSE {<<FALSE, cwd, "ok">>})

\* -------------------------------------------------- parse_simple: cd ----
\* The redirection targets of cd, in the order the code opens them.
CdStages == <<"open_in", "open_out", "open_err">>
CdTargets(s) == <<s.in, s.out, s.err>>

\* Mutant of cd_opens: a failed open is not followed by a return.
RECURSIVE cd_opens_goes_on(_, _, _, _)
cd_opens_goes_on(pr, s, i, failAt) ==
    IF i > Len(CdStages) THEN <<failAt = "none", pr>>
    ELSE IF CdTargets(s)[i] = NULL THEN cd_opens_goes_on(pr, s, i + 1, failAt)
    ELSE IF failAt = CdStages[i] THEN cd_opens_goes_on(pr, s, i + 1, failAt)
    ELSE cd_opens_goes_on([pr EXCEPT !.opens = Append(@, [path |-> CdTargets(s)[i],
                                                          flags |-> "O_TRUNC",
                                                          open |-> FALSE])],
                          s, i + 1, failAt)

\* The opens of the cd built-in from target i on, the open named failAt failing:
\* each declared target is opened with O_WRONLY | O_CREAT | O_TRUNC and closed.
RECURSIVE cd_opens(_, _, _, _)
cd_opens(pr, s, i, failAt) ==
    IF i > Len(CdStages) THEN <<TRUE, pr>>
    ELSE IF CdTargets(s)[i] = NULL THEN cd_opens(pr, s, i + 1, failAt)
    ELSE IF failAt = CdStages[i] THEN <<FALSE, pr>>
    ELSE cd_opens([pr EXCEPT !.opens = Append(@, [path |-> CdTargets(s)[i],
                                                  flags |-> "O_TRUNC",
                                                  open |-> FALSE])],
                  s, i + 1, failAt)

\* The cd built-in, in the calling process: the opens of the redirection
\* targets, then shell_cd(s->params). outcome names the call that fails
\* ("open_in", "open_out", "open_err", "getcwd"), or is "ok", or says what the
\* overflow of path[] leads to.
parse_simple_cd(p, outcome) ==
    /\ At(p, "start")
    /\ Node(p).op = "OP_NONE"
    /\ Node(p).scmd.verb = "cd"
    /\ LET s == Node(p).scmd
           failAt == IF outcome \in {"open_in", "open_out", "open_err"} THEN outcome ELSE "none"
           opened == cd_opens(proc[p], s, 1, failAt)
       IN
       IF ~opened[1]
       THEN /\ Fails(FALSE)
            /\ proc' = [proc EXCEPT ![p] =
                    [opened[2] EXCEPT !.stack = SetTop(@, Return(Top(p), 1))]]
       ELSE /\ outcome \notin {"open_in", "open_out", "open_err"}
            /\ \E c \in shell_cd(proc[p].cwd, s.params) :
                /\ c[3] = outcome
                /\ IF outcome = "getcwd" THEN Fails(FALSE) ELSE UNCHANGED faults
                /\ proc' = [proc EXCEPT ![p] =
                        IF c[3] = "killed" THEN KillProcess(opened[2])
                        ELSE [opened[2] EXCEPT
                                !.cwd = c[2],
                                !.stack = SetTop(@, Return(Top(p), IF c[1] THEN 0 ELSE 1))]]
    /\ UNCHANGED <<tree, pipes, evalCount>>

\* strchr(word, ch) != NULL
RECURSIVE Contains(_, _)
Contains(word, ch) ==
    IF word = "" THEN FALSE
    ELSE Head(word) = ch \/ Contains(Tail(word), ch)

\* strtok with the delimiter '=': the delimiters before the token are skipped,
\* the token runs up to the next delimiter (or the end), and the next call
\* goes on behind that delimiter. The token is NULL when nothing is left.
RECURSIVE SkipDelims(_)
SkipDelims(w) ==
    IF w = "" THEN ""
    ELSE IF Head(w) = "=" THEN SkipDelims(Tail(w)) ELSE w

RECURSIVE Token(_)
Token(w) ==
    IF w = "" THEN ""
    ELSE IF Head(w) = "=" THEN "" ELSE Head(w) \o Token(Tail(w))

RECURSIVE AfterToken(_)
AfterToken(w) ==
    IF w = "" THEN ""
    ELSE IF Head(w) = "=" THEN Tail(w) ELSE AfterToken(Tail(w))

strtok(w) ==
    LET t == SkipDelims(w) IN
    IF t = "" THEN [token |-> NULL, rest |-> ""]
    ELSE [token |-> Token(t), rest |-> AfterToken(t)]

\* char *var = strtok(word, "="); char *val = strtok(NULL, "=");
AssignVar(word) == strtok(word).token
AssignVal(word) == strtok(strtok(word).rest).token

\* setenv(var, val, 1) on an environment (a set of <<name, value>>).
setenv(env, var, val) == {e \in env : e[1] # var} \cup {<<var, val>>}

\* The verb is taken for a variable assignment: it is no built-in and
\* strchr(word, '=') finds a '='.
IsAssignment(verb) == verb # "cd" /\ ~IsTerminate(verb) /\ Contains(verb, "=")

\* The verb is run as an external command.
IsExternal(verb) == verb # "cd" /\ ~IsTerminate(verb) /\ ~Contains(verb, "=")

\* A variable assignment, in the calling process: setenv when strtok finds a
\* name and a value (its result is returned as it is), 1 otherwise.
parse_simple_assign(p, ok) ==
    /\ At(p, "start")
    /\ Node(p).op = "OP_NONE"
    /\ IsAssignment(Node(p).scmd.verb)
    /\ LET var == AssignVar(Node(p).scmd.verb)
           val == AssignVal(Node(p).scmd.verb)
       IN
       IF var # NULL /\ val # NULL
       THEN IF ok
            THEN /\ UNCHANGED faults
                 /\ proc' = [proc EXCEPT ![p].env = setenv(@, var, val),
                                         ![p].stack = SetTop(@, Return(Top(p), 0))]
            ELSE /\ Fails(FALSE)
                 /\ proc' = [proc EXCEPT ![p].stack = SetTop(@, Return(Top(p), -1))]
       ELSE /\ ok
            /\ UNCHANGED faults
            /\ proc' = [proc EXCEPT ![p].stack = SetTop(@, Return(Top(p), 1))]
    /\ UNCHANGED <<tree, pipes, evalCount>>

\* fork for an external command.
parse_simple_fork(p, ok) ==
    /\ At(p, "start")
    /\ Node(p).op = "OP_NONE"
    /\ IsExternal(Node(p).scmd.verb)
    /\ IF ok
       THEN /\ FreePids # {}
            /\ proc' = [proc EXCEPT
                    ![p].stack = SetTop(@, [Top(p) EXCEPT !.pc = "wait", !.pid = NewPid]),
                    ![NewPid] = Child(p, [Top(p) EXCEPT !.pc = "child", !.pid = 0], "simple")]
            /\ UNCHANGED faults
       ELSE /\ Fails(FreePids = {})
            /\ proc' = [proc EXCEPT ![p].stack = SetTop(@, Return(Top(p), 1))]
    /\ UNCHANGED <<tree, pipes, evalCount>>

HasRedirection(s) == s.in # NULL \/ s.out # NULL \/ s.err # NULL

\* open(path, flags) in process pr succeeds: the call is recorded, and the new
\* descriptor is the last entry of pr.opens.
Open(pr, path, flags) ==
    [pr EXCEPT !.opens = Append(@, [path |-> path, flags |-> flags, open |-> TRUE])]

\* close(fd) of the descriptor opened last.
CloseLast(pr) == [pr EXCEPT !.opens[Len(pr.opens)].open = FALSE]

\* The open file description behind the descriptor that process pid opened last.
LastOpened(pid, pr) == <<pid, Len(pr.opens)>>

\* The flags of the open of an output target: `s->io_flags > 0` selects
\* O_APPEND for the stdout target and for the stderr target alike.
OutputFlags(s) == IF s.io_flags > 0 THEN "O_APPEND" ELSE "O_TRUNC"

\* Mutant of Aliased: the stderr target is always opened on its own.
Aliased_Never(s) == FALSE

\* fdout >= 0 && strcmp(output, error) == 0
Aliased(s) == s.out # NULL /\ s.out = s.err

\* The system calls of the redirections, in the order of the code, and whether
\* command s makes the call.
RedirectStages == <<"open_in", "dup2_in", "open_out", "dup2_out", "open_err", "dup2_err">>

Applies(s, stage) ==
    CASE stage \in {"open_in", "dup2_in"} -> s.in # NULL
      [] stage \in {"open_out", "dup2_out"} -> s.out # NULL
      [] stage = "open_err" -> s.err # NULL /\ ~Aliased(s)
      [] stage = "dup2_err" -> s.err # NULL

\* The redirections of the child in process pid, the call failAt failing (none
\* with failAt = "none"): <<done, pr>> with done = FALSE when the child executes
\* `return 1`, and pr the process after the calls made up to there.
redirect_in(pid, pr, s, failAt) ==
    IF s.in = NULL THEN <<TRUE, pr>>
    ELSE IF failAt = "open_in" THEN <<FALSE, pr>>
    ELSE LET o == Open(pr, s.in, "O_RDONLY") IN
         IF failAt = "dup2_in" THEN <<FALSE, CloseLast(o)>>
         ELSE <<TRUE, [o EXCEPT !.files.in = LastOpened(pid, o), !.stdin = 0]>>

redirect_out(pid, pr, s, failAt) ==
    IF s.out = NULL THEN <<TRUE, pr>>
    ELSE IF failAt = "open_out" THEN <<FALSE, pr>>
    ELSE LET o == Open(pr, s.out, OutputFlags(s)) IN
         IF failAt = "dup2_out" THEN <<FALSE, CloseLast(o)>>
         ELSE <<TRUE, [o EXCEPT !.files.out = LastOpened(pid, o), !.stdout = 0]>>

redirect_err(pid, pr, s, failAt) ==
    IF s.err = NULL THEN <<TRUE, pr>>
    ELSE IF Aliased(s)
         THEN \* fderr = fdout
              IF failAt = "dup2_err" THEN <<FALSE, CloseLast(pr)>>
              ELSE <<TRUE, [pr EXCEPT !.files.err = pr.files.out]>>
    ELSE IF failAt = "open_err" THEN <<FALSE, pr>>
    ELSE LET o == Open(pr, s.err, OutputFlags(s)) IN
         IF failAt = "dup2_err" THEN <<FALSE, CloseLast(o)>>
         ELSE <<TRUE, [o EXCEPT !.files.err = LastOpened(pid, o)]>>

Redirections(pid, pr, s, failAt) ==
    LET a == redirect_in(pid, pr, s, failAt) IN
    IF ~a[1] THEN a
    ELSE LET b == redirect_out(pid, a[2], s, failAt) IN
         IF ~b[1] THEN b
         ELSE redirect_err(pid, b[2], s, failAt)

\* The child of parse_simple: the redirections, then execvp. A failed open or
\* dup2 executes `return 1`; a failed execvp executes exit(r) with r = -1.
parse_simple_child(p, outcome) ==
    /\ At(p, "child")
    /\ LET s == Node(p).scmd
           failAt == IF outcome \in {"exec", "exec_error"} THEN "none" ELSE outcome
           red == Redirections(p, proc[p], s, failAt)
       IN
       CASE outcome \in {"exec", "exec_error"} ->
                /\ IF outcome = "exec" THEN UNCHANGED faults ELSE Fails(FALSE)
                /\ proc' = [proc EXCEPT ![p] =
                        IF outcome = "exec"
                        THEN [red[2] EXCEPT !.st = "prog", !.stack = <<>>, !.evals = <<>>]
                        ELSE ExitProcess(red[2], -1)]
         [] OTHER ->
                /\ Applies(s, outcome)
                /\ Fails(FALSE)
                /\ proc' = [proc EXCEPT ![p] =
                        [red[2] EXCEPT !.stack = SetTop(@, Return(Top(p), 1))]]
    /\ UNCHANGED <<tree, pipes, evalCount>>

\* Mutant of WaitResult: WEXITSTATUS is returned without a look at WIFEXITED.
WaitResult_Unchecked(status) == status.code

\* if (WIFEXITED(status)) return WEXITSTATUS(status); ... return 1;
WaitResult(status) == IF status.exited THEN status.code ELSE 1

\* waitpid(pid, &status, 0) in the parent of parse_simple and what it returns.
parse_simple_wait(p, ok) ==
    /\ At(p, "wait")
    /\ LET c == Top(p).pid IN
       IF ok
       THEN /\ proc[c].st = "zombie"
            /\ proc' = [proc EXCEPT
                    ![c].st = "reaped", ![c].waited = TRUE,
                    ![p].stack = SetTop(@, Return(Top(p), WaitResult(proc[c].status)))]
            /\ UNCHANGED faults
       ELSE /\ Fails(FALSE)
            /\ proc' = [proc EXCEPT
                    ![c].waited = TRUE,
                    ![p].stack = SetTop(@, Return(Top(p), 1))]
    /\ UNCHANGED <<tree, pipes, evalCount>>

\* ---------------------------------------------------- external programs ----
\* Processes holding an end of pipe k, the standard streams included.
Holds(q, k, end) ==
    /\ Alive(q)
    /\ \/ <<k, end>> \in proc[q].fds
       \/ end = READ /\ proc[q].stdin = k
       \/ end = WRITE /\ proc[q].stdout = k

Holders(k, end) == {q \in Pids : Holds(q, k, end)}

\* An external program ends: normally with exit code 0 or 1, or by a signal.
ProgramEnds == {Status(TRUE, 0), Status(TRUE, 1), Status(FALSE, 0)}

program_exit(p, s) ==
    /\ proc[p].st = "prog"
    /\ proc' = [proc EXCEPT ![p] =
            IF s.exited THEN ExitProcess(@, s.code) ELSE KillProcess(@)]
    /\ UNCHANGED <<tree, pipes, faults, evalCount>>

\* A child that returned to the caller of parse_command runs the read loop of
\* the shell on; it ends like the shell does, at the end of its input.
driver_exit(p, code) ==
    /\ p # 1
    /\ proc[p].st = "driver"
    /\ proc' = [proc EXCEPT ![p] = ExitProcess(@, code)]
    /\ UNCHANGED <<tree, pipes, faults, evalCount>>

\* ---------------------------------------------------- run_in_parallel ----
\* pid_left = fork()
run_in_parallel_fork_left(p, ok) ==
    /\ At(p, "start")
    /\ Node(p).op = "OP_PARALLEL"
    /\ IF ok
       THEN /\ FreePids # {}
            /\ proc' = [proc EXCEPT
                    ![p].stack = SetTop(@, [Top(p) EXCEPT !.pc = "fork_right", !.pid_left = NewPid]),
                    ![NewPid] = Child(p, [Top(p) EXCEPT !.pc = "child_left", !.pid_left = 0], "parallel")]
            /\ UNCHANGED faults
       ELSE /\ Fails(FreePids = {})
            /\ proc' = [proc EXCEPT ![p].stack = SetTop(@, Return(Top(p), 1))]
    /\ UNCHANGED <<tree, pipes, evalCount>>

\* pid_right = fork()
run_in_parallel_fork_right(p, ok) ==
    /\ At(p, "fork_right")
    /\ Node(p).op = "OP_PARALLEL"
    /\ IF ok
       THEN /\ FreePids # {}
            /\ proc' = [proc EXCEPT
                    ![p].stack = SetTop(@, [Top(p) EXCEPT !.pc = "wait_left", !.pid_right = NewPid]),
                    ![NewPid] = Child(p, [Top(p) EXCEPT !.pc = "child_right", !.pid_right = 0], "parallel")]
            /\ UNCHANGED faults
       ELSE /\ Fails(FreePids = {})
            /\ proc' = [proc EXCEPT ![p].stack = SetTop(@, Return(Top(p), 1))]
    /\ UNCHANGED <<tree, pipes, evalCount>>

\* A child of run_in_parallel calls parse_command on its sub-command.
run_in_parallel_child(p) ==
    /\ At(p, "child_left") \/ At(p, "child_right")
    /\ Node(p).op = "OP_PARALLEL"
    /\ LET k == IF Top(p).pc = "child_left" THEN 1 ELSE 2 IN
        /\ proc' = [proc EXCEPT ![p] = Call(@, [Top(p) EXCEPT !.pc = "branch"], k)]
        /\ Counted(Append(Top(p).path, k))
    /\ UNCHANGED <<tree, pipes, faults>>

\* waitpid(pid_left, &status, 0)
run_in_parallel_wait_left(p, ok) ==
    /\ At(p, "wait_left")
    /\ Node(p).op = "OP_PARALLEL"
    /\ LET c == Top(p).pid_left IN
       IF ok
       THEN /\ proc[c].st = "zombie"
            /\ proc' = [proc EXCEPT
                    ![c].st = "reaped", ![c].waited = TRUE,
                    ![p].stack = SetTop(@, [Top(p) EXCEPT !.pc = "wait_right",
                                                          !.status = proc[c].status])]
            /\ UNCHANGED faults
       ELSE /\ Fails(FALSE)
            /\ proc' = [proc EXCEPT
                    ![c].waited = TRUE,
                    ![p].stack = SetTop(@, Return(Top(p), 1))]
    /\ UNCHANGED <<tree, pipes, evalCount>>

\* Mutant of ParallelResult: the status word decides, as in run_on_pipe.
ParallelResult_Status(status) == IF ~StatusIsZero(status) THEN 1 ELSE 0

\* The result of run_in_parallel once both waitpid calls have succeeded: `return
\* true` whatever the status word holds.
ParallelResult(status) == 0

\* waitpid(pid_right, &status, 0), and the result of run_in_parallel
run_in_parallel_wait_right(p, ok) ==
    /\ At(p, "wait_right")
    /\ Node(p).op = "OP_PARALLEL"
    /\ LET c == Top(p).pid_right IN
       IF ok
       THEN /\ proc[c].st = "zombie"
            /\ proc' = [proc EXCEPT
                    ![c].st = "reaped", ![c].waited = TRUE,
                    ![p].stack = SetTop(@, Return([Top(p) EXCEPT !.status = proc[c].status],
                                                  ParallelResult(proc[c].status)))]
            /\ UNCHANGED faults
       ELSE /\ Fails(FALSE)
            /\ proc' = [proc EXCEPT
                    ![c].waited = TRUE,
                    ![p].stack = SetTop(@, Return(Top(p), 1))]
    /\ UNCHANGED <<tree, pipes, evalCount>>

\* -------------------------------------------------------- run_on_pipe ----
BothEnds(k) == {<<k, READ>>, <<k, WRITE>>}

\* Mutant of run_on_pipe_pipe: a failed pipe() is not followed by a return.
run_on_pipe_pipe_goes_on(p, ok) ==
    /\ At(p, "start")
    /\ Node(p).op = "OP_PIPE"
    /\ IF ok
       THEN /\ Len(pipes) < MaxPipes
            /\ pipes' = Append(pipes, p)
            /\ proc' = [proc EXCEPT
                    ![p].fds = @ \cup BothEnds(Len(pipes) + 1),
                    ![p].stack = SetTop(@, [Top(p) EXCEPT !.pc = "fork_left",
                                                          !.fd = Len(pipes) + 1])]
            /\ UNCHANGED faults
       ELSE /\ Fails(Len(pipes) >= MaxPipes)
            /\ proc' = [proc EXCEPT ![p].stack = SetTop(@, [Top(p) EXCEPT !.pc = "fork_left"])]
            /\ UNCHANGED pipes
    /\ UNCHANGED <<tree, evalCount>>

\* pipe(fd)
run_on_pipe_pipe(p, ok) ==
    /\ At(p, "start")
    /\ Node(p).op = "OP_PIPE"
    /\ IF ok
       THEN /\ Len(pipes) < MaxPipes
            /\ pipes' = Append(pipes, p)
            /\ proc' = [proc EXCEPT
                    ![p].fds = @ \cup BothEnds(Len(pipes) + 1),
                    ![p].stack = SetTop(@, [Top(p) EXCEPT !.pc = "fork_left",
                                                          !.fd = Len(pipes) + 1])]
            /\ UNCHANGED faults
       ELSE /\ Fails(Len(pipes) >= MaxPipes)
            /\ proc' = [proc EXCEPT ![p].stack = SetTop(@, Return(Top(p), 1))]
            /\ UNCHANGED pipes
    /\ UNCHANGED <<tree, evalCount>>

\* pid_left = fork(); on failure the function returns with fd[] as it is.
run_on_pipe_fork_left(p, ok) ==
    /\ At(p, "fork_left")
    /\ Node(p).op = "OP_PIPE"
    /\ IF ok
       THEN /\ FreePids # {}
            /\ proc' = [proc EXCEPT
                    ![p].stack = SetTop(@, [Top(p) EXCEPT !.pc = "fork_right", !.pid_left = NewPid]),
                    ![NewPid] = Child(p, [Top(p) EXCEPT !.pc = "child_left", !.pid_left = 0], "pipe")]
            /\ UNCHANGED faults
       ELSE /\ Fails(FreePids = {})
            /\ proc' = [proc EXCEPT ![p].stack = SetTop(@, Return(Top(p), 1))]
    /\ UNCHANGED <<tree, pipes, evalCount>>

\* pid_right = fork(); on failure the function returns with fd[] as it is.
run_on_pipe_fork_right(p, ok) ==
    /\ At(p, "fork_right")
    /\ Node(p).op = "OP_PIPE"
    /\ IF ok
       THEN /\ FreePids # {}
            /\ proc' = [proc EXCEPT
                    ![p].stack = SetTop(@, [Top(p) EXCEPT !.pc = "close", !.pid_right = NewPid]),
                    ![NewPid] = Child(p, [Top(p) EXCEPT !.pc = "child_right", !.pid_right = 0], "pipe")]
            /\ UNCHANGED faults
       ELSE /\ Fails(FreePids = {})
            /\ proc' = [proc EXCEPT ![p].stack = SetTop(@, Return(Top(p), 1))]
    /\ UNCHANGED <<tree, pipes, evalCount>>

\* The left child: close(fd[READ]); dup2(fd[WRITE], STDOUT_FILENO); then
\* parse_command on cmd1. A failed dup2 closes fd[WRITE] and executes
\* `return false`.
run_on_pipe_child_left(p, ok) ==
    /\ At(p, "child_left")
    /\ Node(p).op = "OP_PIPE"
    /\ LET k == Top(p).fd IN
       IF ok
       THEN /\ proc' = [proc EXCEPT ![p] =
                    Call([@ EXCEPT !.fds = @ \ {<<k, READ>>}, !.stdout = k],
                         [Top(p) EXCEPT !.pc = "branch"], 1)]
            /\ Counted(Append(Top(p).path, 1))
            /\ UNCHANGED faults
       ELSE /\ Fails(FALSE)
            /\ proc' = [proc EXCEPT ![p].fds = @ \ BothEnds(k),
                                    ![p].stack = SetTop(@, Return(Top(p), 1))]
            /\ UNCHANGED evalCount
    /\ UNCHANGED <<tree, pipes>>

\* The right child: close(fd[WRITE]); dup2(fd[READ], STDIN_FILENO); then
\* parse_command on cmd2. A failed dup2 closes fd[READ] and executes
\* `return false`.
run_on_pipe_child_right(p, ok) ==
    /\ At(p, "child_right")
    /\ Node(p).op = "OP_PIPE"
    /\ LET k == Top(p).fd IN
       IF ok
       THEN /\ proc' = [proc EXCEPT ![p] =
                    Call([@ EXCEPT !.fds = @ \ {<<k, WRITE>>}, !.stdin = k],
                         [Top(p) EXCEPT !.pc = "branch"], 2)]
            /\ Counted(Append(Top(p).path, 2))
            /\ UNCHANGED faults
       ELSE /\ Fails(FALSE)
            /\ proc' = [proc EXCEPT ![p].fds = @ \ BothEnds(k),
                                    ![p].stack = SetTop(@, Return(Top(p), 1))]
            /\ UNCHANGED evalCount
    /\ UNCHANGED <<tree, pipes>>

\* Mutant of run_on_pipe_close: the parent goes on to wait with both ends open.
run_on_pipe_close_skipped(p) ==
    /\ At(p, "close")
    /\ Node(p).op = "OP_PIPE"
    /\ proc' = [proc EXCEPT ![p].stack = SetTop(@, [Top(p) EXCEPT !.pc = "wait_left"])]
    /\ UNCHANGED <<tree, pipes, faults, evalCount>>

\* The parent: close(fd[READ]); close(fd[WRITE]);
run_on_pipe_close(p) ==
    /\ At(p, "close")
    /\ Node(p).op = "OP_PIPE"
    /\ proc' = [proc EXCEPT ![p].fds = @ \ BothEnds(Top(p).fd),
                            ![p].stack = SetTop(@, [Top(p) EXCEPT !.pc = "wait_left"])]
    /\ UNCHANGED <<tree, pipes, faults, evalCount>>

\* waitpid(pid_left, &status, 0)
run_on_pipe_wait_left(p, ok) ==
    /\ At(p, "wait_left")
    /\ Node(p).op = "OP_PIPE"
    /\ LET c == Top(p).pid_left IN
       IF ok
       THEN /\ proc[c].st = "zombie"
            /\ proc' = [proc EXCEPT
                    ![c].st = "reaped", ![c].waited = TRUE,
                    ![p].stack = SetTop(@, [Top(p) EXCEPT !.pc = "wait_right",
                                                          !.status = proc[c].status])]
            /\ UNCHANGED faults
       ELSE /\ Fails(FALSE)
            /\ proc' = [proc EXCEPT
                    ![c].waited = TRUE,
                    ![p].stack = SetTop(@, Return(Top(p), 1))]
    /\ UNCHANGED <<tree, pipes, evalCount>>

\* Mutant of PipeResult: the status word is not looked at.
PipeResult_Unchecked(status) == 0

\* Mutant of PipeResult: an exit or quit that ended the right branch is handed
\* on as the terminate sentinel.
PipeResult_Sentinel(status) ==
    IF status = Status(TRUE, SHELL_EXIT % 256) THEN SHELL_EXIT
    ELSE IF ~StatusIsZero(status) THEN 1 ELSE 0

\* The result of run_on_pipe from the status word the last waitpid wrote.
PipeResult(status) == IF ~StatusIsZero(status) THEN 1 ELSE 0

\* waitpid(pid_right, &status, 0); if (status != 0) return false; return true;
run_on_pipe_wait_right(p, ok) ==
    /\ At(p, "wait_right")
    /\ Node(p).op = "OP_PIPE"
    /\ LET c == Top(p).pid_right IN
       IF ok
       THEN /\ proc[c].st = "zombie"
            /\ proc' = [proc EXCEPT
                    ![c].st = "reaped", ![c].waited = TRUE,
                    ![p].stack = SetTop(@, Return([Top(p) EXCEPT !.status = proc[c].status],
                                                  PipeResult(proc[c].status)))]
            /\ UNCHANGED faults
       ELSE /\ Fails(FALSE)
            /\ proc' = [proc EXCEPT
                    ![c].waited = TRUE,
                    ![p].stack = SetTop(@, Return(Top(p), 1))]
    /\ UNCHANGED <<tree, pipes, evalCount>>

\* ------------------------------------------------------ specification ----
\* The steps that need no failure of a system call.
Good ==
    \E p \in Pids :
        \/ parse_command_cmd1(p)
        \/ parse_command_return(p)
        \/ parse_simple_exit(p)
        \/ \E o \in {"ok", "overflow", "killed"} : parse_simple_cd(p, o)
        \/ parse_simple_assign(p, TRUE)
        \/ parse_simple_fork(p, TRUE)
        \/ parse_simple_child(p, "exec")
        \/ parse_simple_wait(p, TRUE)
        \/ run_in_parallel_fork_left(p, TRUE)
        \/ run_in_parallel_fork_right(p, TRUE)
        \/ run_in_parallel_child(p)
        \/ run_in_parallel_wait_left(p, TRUE)
        \/ run_in_parallel_wait_right(p, TRUE)
        \/ run_on_pipe_pipe(p, TRUE)
        \/ run_on_pipe_fork_left(p, TRUE)
        \/ run_on_pipe_fork_right(p, TRUE)
        \/ run_on_pipe_child_left(p, TRUE)
        \/ run_on_pipe_child_right(p, TRUE)
        \/ run_on_pipe_close(p)
        \/ run_on_pipe_wait_left(p, TRUE)
        \/ run_on_pipe_wait_right(p, TRUE)
        \/ \E code \in {0, 1} : driver_exit(p, code)

\* An external program may end at any time.
Programs == \E p \in Pids : \E s \in ProgramEnds : program_exit(p, s)

\* The steps in which a system call fails.
Faulty ==
    \E p \in Pids :
        \/ \E o \in {"open_in", "open_out", "open_err", "getcwd"} : parse_simple_cd(p, o)
        \/ parse_simple_assign(p, FALSE)
        \/ parse_simple_fork(p, FALSE)
        \/ \E i \in DOMAIN RedirectStages : parse_simple_child(p, RedirectStages[i])
        \/ parse_simple_child(p, "exec_error")
        \/ parse_simple_wait(p, FALSE)
        \/ run_in_parallel_fork_left(p, FALSE)
        \/ run_in_parallel_fork_right(p, FALSE)
        \/ run_in_parallel_wait_left(p, FALSE)
        \/ run_in_parallel_wait_right(p, FALSE)
        \/ run_on_pipe_pipe(p, FALSE)
        \/ run_on_pipe_fork_left(p, FALSE)
        \/ run_on_pipe_fork_right(p, FALSE)
        \/ run_on_pipe_child_left(p, FALSE)
        \/ run_on_pipe_child_right(p, FALSE)
        \/ run_on_pipe_wait_left(p, FALSE)
        \/ run_on_pipe_wait_right(p, FALSE)

Next == Good \/ Programs \/ Faulty

Spec == Init /\ [][Next]_vars

\* ------------------------------------------------- pipes and liveness ----
\* An external program that reads a pipe ends at the latest when its input is
\* at end-of-input (no live process holds the write end) or when its output
\* has no reader; a program whose input is no pipe ends on its own.
CanFinish(p) ==
    \/ proc[p].stdin = 0
    \/ Holders(proc[p].stdin, WRITE) = {}
    \/ proc[p].stdout # 0 /\ Holders(proc[p].stdout, READ) = {}

ProgramsFinish ==
    \E p \in Pids : \E s \in ProgramEnds : CanFinish(p) /\ program_exit(p, s)

\* Leaves of the pipelines: the terminate built-in (a branch without output) and
\* an external command that reads its standard input.
PipeLeaves == {Simple("exit", FALSE), Simple("prog", FALSE)}

PipeTrees1 == {Command(op, a, b) : op \in Operators, a \in PipeLeaves, b \in PipeLeaves}

\* Pipe(Pipe(a, b), c) and Pipe(a, Pipe(b, c)) with one external command.
LeafTriplesOneProgram ==
    {x \in PipeLeaves \X PipeLeaves \X PipeLeaves :
        Cardinality({i \in 1..3 : x[i].scmd.verb = "prog"}) = 1}

NestedPipes ==
    {Command("OP_PIPE", Command("OP_PIPE", x[1], x[2]), x[3]) : x \in LeafTriplesOneProgram}
    \cup
    {Command("OP_PIPE", x[1], Command("OP_PIPE", x[2], x[3])) : x \in LeafTriplesOneProgram}

\* The built-ins and assignments whose words fit into path[] of shell_cd.
BuiltinLeaves ==
    {t \in CdLeaves : ~Overflows(StartDir, t.scmd.params)} \cup AssignLeaves

\* One operator or one built-in with system calls that may fail, or nested
\* pipes with system calls that fail only when the process table is full.
InitPipes ==
    \/ InitFor(PipeTrees1 \cup BuiltinLeaves, 0)
    \/ InitFor(NestedPipes, MaxFaults)

\* No step that can be taken without a failure is put off for ever, and a
\* program that can end does.
FairSpec == InitPipes /\ [][Next]_vars /\ WF_vars(Good) /\ WF_vars(ProgramsFinish)

\* ------------------------------------------------- reading the state ----
\* The activations of process p, from the root's down to the current one.
Frames(p) == {proc[p].stack[i] : i \in 1..Len(proc[p].stack)}

OpOf(f) == GetNode(tree, f.path).op

\* The helper called from activation f has not returned yet.
Active(f) == f.pc # "ret"

\* How often process p (or, before the fork, the process it is a copy of) has
\* called parse_command on the node at path.
Evals(p, path) == proc[p].evals[path]

RECURSIVE IsDescendant(_, _)
IsDescendant(c, p) ==
    /\ proc[c].parent # 0
    /\ (proc[c].parent = p \/ IsDescendant(proc[c].parent, p))

Created(c) == proc[c].st # "free" /\ proc[c].parent # 0

IsExitLeaf(path) ==
    GetNode(tree, path).op = "OP_NONE" /\ IsTerminate(GetNode(tree, path).scmd.verb)

OnlyInProcessOps ==
    \A n \in NodePaths(tree) : GetNode(tree, n).op \in InProcessOps \cup {"OP_NONE"}

\* The shell (process 1) has got the value of parse_command on the root.
RootReturned == proc[1].st = "driver"

\* ------------------------------------------------------------- claims ----
\* C1 (as claimed): in a tree whose operators are only Sequential and the two
\* Conditionals, once the shell has executed an exit or quit command,
\* parse_command on the root returns SHELL_EXIT.
C1_SentinelPropagates ==
    (/\ OnlyInProcessOps
     /\ RootReturned
     /\ \E n \in NodePaths(tree) : IsExitLeaf(n) /\ Evals(1, n) > 0)
    => proc[1].result = SHELL_EXIT

\* The parent's activation of run_on_pipe with both branches created, at the
\* `return r` of parse_command.
PipeReturning(f) ==
    /\ OpOf(f) = "OP_PIPE"
    /\ f.pc = "ret"
    /\ f.pid_left # 0
    /\ f.pid_right # 0

Reaped(c) == proc[c].st = "reaped"

\* C2 (as claimed): a Pipe with both branches created returns 0 only if both
\* branches were joined and both ended with status zero.
C2_BothBranchesDecide ==
    \A p \in Pids : \A f \in Frames(p) :
        (PipeReturning(f) /\ f.r = 0) =>
            /\ Reaped(f.pid_left) /\ StatusIsZero(proc[f.pid_left].status)
            /\ Reaped(f.pid_right) /\ StatusIsZero(proc[f.pid_right].status)

\* C2 (amended): a Pipe with both branches created returns 0 exactly when both
\* waitpid calls succeeded and the status of the right branch is zero, and 1
\* otherwise; the status of the left branch does not count.
C2_RightBranchDecides ==
    \A p \in Pids : \A f \in Frames(p) :
        PipeReturning(f) =>
            /\ f.r \in {0, 1}
            /\ f.r = 0 <=> /\ Reaped(f.pid_left)
                           /\ Reaped(f.pid_right)
                           /\ StatusIsZero(proc[f.pid_right].status)

\* C2 witness: a Pipe returns 0 although its left branch ended with a nonzero
\* status.
C2_Witness ==
    \E p \in Pids : \E f \in Frames(p) :
        /\ PipeReturning(f)
        /\ f.r = 0
        /\ Reaped(f.pid_left)
        /\ ~StatusIsZero(proc[f.pid_left].status)

\* C3 (as claimed): a child forked for an external command or for a Pipe branch
\* never returns from the activation it was forked in: it never runs in a copy
\* of its creator's callers, nor in the caller of parse_command.
C3_ChildNeverReturns ==
    \A c \in Pids :
        proc[c].kind \in {"simple", "pipe"} =>
            /\ proc[c].st # "driver"
            /\ proc[c].st = "run" => Len(proc[c].stack) > Len(proc[c].born)

\* C4 (as claimed): parse_command is called at most once on every node, all
\* processes counted.
C4_EvaluateOnce == \A n \in NodePaths(tree) : evalCount[n] <= 1

\* Process p has started the evaluation of cmd2 in activation f.
StartedCmd2(f) == f.pc = "cmd2" \/ f.r2 # <<>>

\* C5 (as claimed): while a process evaluates the second command of a
\* Sequential or Conditional node, every process created under it during the
\* evaluation of the first command has terminated.
C5_LeftTerminatedBeforeRight ==
    \A p \in Pids : \A f \in Frames(p) :
        (OpOf(f) \in InProcessOps /\ StartedCmd2(f)) =>
            \A c \in Pids :
                (Created(c) /\ IsDescendant(c, p) /\ IsPrefix(Append(f.path, 1), proc[c].born))
                    => Terminated(c)

\* The function that forked c is still running in c's creator.
ForkerActive(c) ==
    \E f \in Frames(proc[c].parent) :
        Active(f) /\ c \in {f.pid, f.pid_left, f.pid_right}

\* C6 (as claimed): once the function that forked a child has returned in the
\* creator, the creator has called waitpid on that child.
C6_JoinPairing ==
    \A c \in Pids :
        (Created(c) /\ ~ForkerActive(c)) => proc[c].waited

\* C7 (as claimed): once run_on_pipe has returned in the process that created
\* the pipe, that process holds neither end of it.
C7_PipePruned ==
    \A k \in 1..Len(pipes) :
        LET p == pipes[k] IN
        (/\ proc[p].st \in {"run", "driver"}
         /\ ~\E f \in Frames(p) : Active(f) /\ f.fd = k)
            => proc[p].fds \cap BothEnds(k) = {}

\* The conditions of the two Conditional operators, as the claims state them.
SkipsRight(op, v) ==
    \/ op = "OP_CONDITIONAL_NZERO" /\ v = 0
    \/ op = "OP_CONDITIONAL_ZERO" /\ v # 0

\* C9: in every activation of a Conditional node, cmd2 is not started before
\* cmd1 has returned; if cmd1's status skips cmd2 (0 under ConditionalIfNonZero,
\* nonzero under ConditionalIfZero) cmd2 is never started and the node returns
\* that status; otherwise cmd2 is started exactly once and its status is the
\* node's result.
C9_Conditional ==
    \A p \in Pids : \A f \in Frames(p) :
        OpOf(f) \in {"OP_CONDITIONAL_NZERO", "OP_CONDITIONAL_ZERO"} =>
            LET started == Evals(p, Append(f.path, 2)) IN
            /\ f.pc \in {"start", "cmd1"} => started = 0 /\ f.r1 = <<>>
            /\ f.pc \in {"cmd2", "ret"} => f.r1 # <<>>
            /\ (f.r1 # <<>> /\ SkipsRight(OpOf(f), f.r1[1])) =>
                    /\ started = 0
                    /\ f.pc = "ret" /\ f.r = f.r1[1] /\ f.r2 = <<>>
            /\ (f.r1 # <<>> /\ ~SkipsRight(OpOf(f), f.r1[1])) =>
                    /\ started = 1
                    /\ f.pc = "cmd2" \/ (f.pc = "ret" /\ f.r2 # <<>> /\ f.r = f.r2[1])

\* C9 witness: a ConditionalIfNonZero whose cmd1 returned nonzero returns the
\* status of cmd2, which differs from cmd1's.
C9_Witness ==
    \E p \in Pids : \E f \in Frames(p) :
        /\ OpOf(f) = "OP_CONDITIONAL_NZERO"
        /\ f.pc = "ret"
        /\ f.r1 # <<>> /\ f.r1[1] # 0
        /\ f.r2 # <<>> /\ f.r2[1] # f.r1[1]
        /\ f.r = f.r2[1]

\* C10: in every activation of a Sequential node, cmd2 is not started before
\* cmd1 has returned, it is started exactly once whatever cmd1 returned, and the
\* node returns the status of cmd2.
C10_Sequential ==
    \A p \in Pids : \A f \in Frames(p) :
        OpOf(f) = "OP_SEQUENTIAL" =>
            LET started == Evals(p, Append(f.path, 2)) IN
            /\ f.pc \in {"start", "cmd1"} => started = 0 /\ f.r1 = <<>>
            /\ f.pc \in {"cmd2", "ret"} => f.r1 # <<>> /\ started = 1
            /\ f.pc = "ret" => f.r2 # <<>> /\ f.r = f.r2[1]

\* C10 witness: a Sequential whose cmd1 returned the terminate sentinel returns
\* the status of cmd2, which is not the sentinel.
C10_Witness ==
    \E p \in Pids : \E f \in Frames(p) :
        /\ OpOf(f) = "OP_SEQUENTIAL"
        /\ f.pc = "ret"
        /\ f.r1 = <<SHELL_EXIT>>
        /\ f.r2 # <<>> /\ f.r2[1] # SHELL_EXIT
        /\ f.r = f.r2[1]

\* The parent's activation of run_on_pipe, from pipe() to its return.
PipeParent(f) ==
    /\ OpOf(f) = "OP_PIPE"
    /\ f.pc \in {"start", "fork_left", "fork_right", "close", "wait_left", "wait_right"}

InRunOnPipe == \E p \in Pids : proc[p].st = "run" /\ \E f \in Frames(p) : PipeParent(f)

\* The processes of the branch whose first process is c.
Branch(c) == {c} \cup {q \in Pids : Created(q) /\ IsDescendant(q, c)}

\* The child c of activation f is still before its close and dup2.
BeforeClose(c, f) ==
    /\ proc[c].st = "run"
    /\ Top(c).path = f.path
    /\ Top(c).pc \in {"child_left", "child_right"}

\* Once both branches of a Pipe are created, the parent and the right child
\* have done their closes and every process of the left branch has terminated,
\* no live process holds the write end of the pipe.
WriteEndReleased ==
    \A p \in Pids : \A f \in Frames(p) :
        (/\ proc[p].st = "run"
         /\ OpOf(f) = "OP_PIPE"
         /\ f.pc \in {"wait_left", "wait_right"}
         /\ ~BeforeClose(f.pid_right, f)
         /\ \A c \in Branch(f.pid_left) : Terminated(c))
            => Holders(f.fd, WRITE) = {}

\* C8: the write end of a pipe is released once its left branch has terminated
\* (so the right branch reads end-of-input), and if programs end at
\* end-of-input or when their output has no reader, every evaluation of a Pipe
\* node returns.
C8_PipeTerminates == []WriteEndReleased /\ <>[]~InRunOnPipe

\* C8 witness: the parent of a nested pipe waits for the right branch, the left
\* branch (itself a pipe with its own children) has terminated, an external
\* program of the right branch is running and nothing holds the write end.
C8_Witness ==
    \E p \in Pids : \E f \in Frames(p) :
        /\ proc[p].st = "run"
        /\ OpOf(f) = "OP_PIPE"
        /\ f.pc = "wait_right"
        /\ Cardinality(Branch(f.pid_left)) > 1
        /\ \A c \in Branch(f.pid_left) : Terminated(c)
        /\ \E q \in Branch(f.pid_right) : proc[q].st = "prog" /\ proc[q].stdin = f.fd
        /\ Holders(f.fd, WRITE) = {}

\* The parent's activation of run_in_parallel at the `return r` of parse_command.
ParallelReturning(f) == OpOf(f) = "OP_PARALLEL" /\ f.pc = "ret"

\* C11: a Parallel node returns 0 exactly when both forks and both waitpid calls
\* succeeded, and 1 otherwise, whatever the statuses of the branches; when it
\* returns 0 both branch processes have terminated.
C11_ParallelResult ==
    \A p \in Pids : \A f \in Frames(p) :
        ParallelReturning(f) =>
            /\ f.r \in {0, 1}
            /\ f.r = 0 <=> /\ f.pid_left # 0 /\ Reaped(f.pid_left)
                           /\ f.pid_right # 0 /\ Reaped(f.pid_right)
            /\ f.r = 0 => Terminated(f.pid_left) /\ Terminated(f.pid_right)

\* C11 witness: a Parallel node returns 0 although both branches ended with a
\* nonzero status, the left one after an external command, the right one after
\* the terminate built-in.
C11_Witness ==
    \E p \in Pids : \E f \in Frames(p) :
        /\ ParallelReturning(f)
        /\ f.r = 0
        /\ proc[f.pid_left].status = Status(TRUE, 1)
        /\ proc[f.pid_right].status = Status(TRUE, SHELL_EXIT % 256)

\* The nodes strictly between path a and the node at path b below it are all
\* evaluated in the calling process.
InProcessBetween(a, b) ==
    /\ IsPrefix(a, b)
    /\ \A i \in Len(a)..(Len(b) - 1) : GetNode(tree, SubSeq(b, 1, i)).op \in InProcessOps

\* C20: a Parallel or Pipe node returns 0 or 1 in every process; an activation
\* of parse_command returns the terminate sentinel only if its process has
\* itself evaluated an exit or quit leaf that no Parallel or Pipe node separates
\* from the activation's node, so an exit or quit run in a branch never does.
C20_SentinelContained ==
    \A p \in Pids : \A f \in Frames(p) :
        f.pc = "ret" =>
            /\ OpOf(f) \in {"OP_PARALLEL", "OP_PIPE"} => f.r \in {0, 1}
            /\ f.r = SHELL_EXIT =>
                    \E n \in NodePaths(tree) :
                        /\ IsExitLeaf(n)
                        /\ InProcessBetween(f.path, n)
                        /\ Evals(p, n) > 0

\* C20 witness: a Parallel or Pipe node returns in the process that forked its
\* branches after its right branch ran the terminate built-in and ended with
\* the sentinel as exit code.
C20_Witness ==
    \E p \in Pids : \E f \in Frames(p) :
        /\ OpOf(f) \in {"OP_PARALLEL", "OP_PIPE"}
        /\ f.pc = "ret"
        /\ f.pid_right # 0
        /\ Reaped(f.pid_right)
        /\ IsExitLeaf(Append(f.path, 2))
        /\ proc[f.pid_right].status = Status(TRUE, SHELL_EXIT % 256)

\* Activation f of process p is the one that forks (not the forked child's copy).
ParentRole(p, f) == proc[p].parent = 0 \/ proc[p].born # f.path

\* The processes forked by p in its activation on the node at path n.
ChildrenAt(p, n) == {c \in Pids : Created(c) /\ proc[c].parent = p /\ proc[c].born = n}

FirstForkFailed(f) == f.pc = "ret" /\ f.pid_left = 0 /\ (OpOf(f) = "OP_PIPE" => f.fd # 0)

SecondForkFailed(f) == f.pc = "ret" /\ f.pid_left # 0 /\ f.pid_right = 0

CommandOf(c) == GetNode(tree, proc[c].born).scmd

\* Child c of parse_simple has replaced its image by the external program.
Executing(c) == proc[c].kind = "simple" /\ proc[c].st = "prog"

\* The append flags of a simple command, one bit each in io_flags.
OutAppendFlag(s) == (s.io_flags \div IO_OUT_APPEND) % 2 = 1
ErrAppendFlag(s) == (s.io_flags \div IO_ERR_APPEND) % 2 = 1

\* The open call of process c behind the description d = <<c, i>>.
OpenOf(d) == proc[d[1]].opens[d[2]]

\* C12 (as claimed): the stdout target of an external command is opened in
\* append mode exactly when the stdout append flag is set, and a stderr target
\* of its own exactly when the stderr append flag is set.
C12_IndependentModes ==
    \A c \in Pids :
        Executing(c) =>
            LET s == CommandOf(c) IN
            /\ s.out # NULL =>
                    OpenOf(proc[c].files.out).flags =
                        IF OutAppendFlag(s) THEN "O_APPEND" ELSE "O_TRUNC"
            /\ (s.err # NULL /\ s.err # s.out) =>
                    OpenOf(proc[c].files.err).flags =
                        IF ErrAppendFlag(s) THEN "O_APPEND" ELSE "O_TRUNC"

\* The opens for writing that process c has made on path.
WriteOpens(c, path) ==
    {i \in DOMAIN proc[c].opens :
        proc[c].opens[i].path = path /\ proc[c].opens[i].flags # "O_RDONLY"}

\* C13: a child of an external command whose stdout and stderr targets are the
\* same path string opens that path at most once, and exactly once when it
\* executes the program, its standard output and standard error being then
\* the same open file description; with different paths, or without a stdout
\* target, the standard error is a description of its own, opened on the
\* stderr target.
C13_Aliasing ==
    \A c \in Pids :
        (proc[c].kind = "simple" /\ proc[c].st \in {"run", "prog"}) =>
            LET s == CommandOf(c) IN
            /\ (s.err # NULL /\ s.err = s.out) =>
                    /\ Cardinality(WriteOpens(c, s.out)) <= 1
                    /\ Executing(c) =>
                            /\ Cardinality(WriteOpens(c, s.out)) = 1
                            /\ proc[c].files.out # <<>>
                            /\ proc[c].files.err = proc[c].files.out
            /\ (s.err # NULL /\ s.err # s.out /\ Executing(c)) =>
                    /\ proc[c].files.err # <<>>
                    /\ proc[c].files.err # proc[c].files.out
                    /\ OpenOf(proc[c].files.err).path = s.err
                    /\ Cardinality(WriteOpens(c, s.err)) = 1

\* C13 witness: a program runs with its standard output and standard error on
\* the single open of the path that both targets name.
C13_Witness ==
    \E c \in Pids :
        /\ Executing(c)
        /\ CommandOf(c).out # NULL
        /\ CommandOf(c).err = CommandOf(c).out
        /\ proc[c].files.err = proc[c].files.out
        /\ Len(proc[c].opens) = 1

\* The number of occurrences of ch in word.
RECURSIVE Count(_, _)
Count(word, ch) ==
    IF word = "" THEN 0
    ELSE (IF Head(word) = ch THEN 1 ELSE 0) + Count(Tail(word), ch)

\* name=value as the claim reads it: exactly one '=', a nonempty name before it
\* and a nonempty value behind it.
MatchesPattern(verb) ==
    /\ Count(verb, "=") = 1
    /\ Token(verb) # ""
    /\ AfterToken(verb) # ""

IsBuiltin(verb) == verb = "cd" \/ IsTerminate(verb)

\* Activation f of process p is parse_command on a simple command and is at
\* its `return r`, in the process that called it (not in a child forked by it).
SimpleReturning(p, f) == OpOf(f) = "OP_NONE" /\ f.pc = "ret" /\ ParentRole(p, f)

\* C14 (as claimed): a verb that is no built-in is handled as an assignment
\* exactly when it matches name=value; then no child is created, the result is
\* that of the mutation and, on success, the environment holds name=value; a
\* verb that does not match is run in a new child (unless fork fails).
C14_AssignmentPattern ==
    \A p \in Pids : \A f \in Frames(p) :
        (SimpleReturning(p, f) /\ ~IsBuiltin(GetNode(tree, f.path).scmd.verb)) =>
            LET verb == GetNode(tree, f.path).scmd.verb IN
            /\ MatchesPattern(verb) =>
                    /\ ChildrenAt(p, f.path) = {}
                    /\ f.r = 0 => <<Token(verb), AfterToken(verb)>> \in proc[p].env
                    /\ f.r # 0 => proc[p].env = f.env0
            /\ (~MatchesPattern(verb) /\ faults = 0 /\ FreePids # {}) =>
                    /\ ChildrenAt(p, f.path) # {}
                    /\ proc[p].env = f.env0

\* The number of redirection targets that command s declares.
DeclaredTargets(s) == Cardinality({i \in 1..3 : CdTargets(s)[i] # NULL})

\* Both attempts of shell_cd fail from directory cwd: chdir(dir), and chdir of
\* dir joined to cwd.
CannotEnter(cwd, dir) ==
    /\ dir # NULL
    /\ ~ChdirOk(cwd, dir)
    /\ ~ChdirOk(cwd, cwd \o "/" \o dir)

\* C15 (as claimed): cd, exit and quit never create a child process and do not
\* end the process that runs them; exit and quit return the sentinel whatever
\* their arguments and redirections; cd without an argument (its redirection
\* targets opened) returns 0 and leaves the working directory as it was; cd to
\* a path that cannot be entered returns a nonzero status that is not the
\* sentinel and leaves the working directory as it was.
C15_BuiltinsInProcess ==
    /\ (tree.op = "OP_NONE" /\ IsBuiltin(tree.scmd.verb)) => proc[1].st # "zombie"
    /\ \A p \in Pids : \A f \in Frames(p) :
        (OpOf(f) = "OP_NONE" /\ IsBuiltin(GetNode(tree, f.path).scmd.verb)) =>
            LET s == GetNode(tree, f.path).scmd IN
            /\ ChildrenAt(p, f.path) = {}
            /\ (f.pc = "ret" /\ IsTerminate(s.verb)) => f.r = SHELL_EXIT
            /\ (f.pc = "ret" /\ s.verb = "cd" /\ s.params = NULL
                    /\ Len(proc[p].opens) = DeclaredTargets(s)) =>
                    f.r = 0 /\ proc[p].cwd = f.cwd0
            /\ (f.pc = "ret" /\ s.verb = "cd" /\ CannotEnter(f.cwd0, s.params)) =>
                    /\ f.r \notin {0, SHELL_EXIT}
                    /\ proc[p].cwd = f.cwd0

\* The redirection targets that command s declares, in the order stdin, stdout,
\* stderr.
RECURSIVE DeclaredFrom(_, _)
DeclaredFrom(s, i) ==
    IF i > 3 THEN <<>>
    ELSE (IF CdTargets(s)[i] = NULL THEN <<>> ELSE <<CdTargets(s)[i]>>) \o DeclaredFrom(s, i + 1)

\* C19: when a cd command returns, the opens it has made are a prefix of its
\* declared targets in the order stdin, stdout, stderr, each of them with
\* O_CREAT and O_TRUNC and closed again; when a target was left out (its open
\* failed) cd returns 1, no later target is opened and the working directory is
\* as it was; the working directory changes only after all targets were opened.
C19_CdRedirections ==
    \A p \in Pids : \A f \in Frames(p) :
        (OpOf(f) = "OP_NONE" /\ GetNode(tree, f.path).scmd.verb = "cd" /\ f.pc = "ret") =>
            LET declared == DeclaredFrom(GetNode(tree, f.path).scmd, 1)
                log == proc[p].opens
            IN
            /\ Len(log) <= Len(declared)
            /\ \A i \in DOMAIN log :
                    log[i] = [path |-> declared[i], flags |-> "O_TRUNC", open |-> FALSE]
            /\ Len(log) < Len(declared) => f.r = 1 /\ proc[p].cwd = f.cwd0
            /\ proc[p].cwd # f.cwd0 => Len(log) = Len(declared)

\* C19 witness: a cd with three redirection targets has returned 1 with the
\* stdin target alone opened and closed, and the working directory as it was.
C19_Witness ==
    \E p \in Pids : \E f \in Frames(p) :
        /\ OpOf(f) = "OP_NONE" /\ GetNode(tree, f.path).scmd.verb = "cd" /\ f.pc = "ret"
        /\ DeclaredTargets(GetNode(tree, f.path).scmd) = 3
        /\ GetNode(tree, f.path).scmd.params = "d"
        /\ Len(proc[p].opens) = 1
        /\ f.r = 1
        /\ proc[p].cwd = f.cwd0

\* One step of the program, as to the environments: a process that is created
\* starts with the environment its creator has at that moment, and the
\* environment of a live process changes only by an assignment that the
\* process itself executes.
EnvStep ==
    \A p \in Pids :
        /\ (proc[p].st = "free" /\ proc'[p].st # "free") =>
                proc'[p].env = proc[proc'[p].parent].env
        /\ (Alive(p) /\ proc'[p].st \in {"run", "prog", "driver"}
                /\ proc'[p].env # proc[p].env) =>
                /\ At(p, "start")
                /\ Node(p).op = "OP_NONE"
                /\ IsAssignment(Node(p).scmd.verb)

\* When a Parallel or Pipe node returns, the environment of the process is the
\* one it had when the evaluation of the node began.
NodeKeepsEnv ==
    \A p \in Pids : \A f \in Frames(p) :
        (OpOf(f) \in {"OP_PARALLEL", "OP_PIPE"} /\ f.pc = "ret") => proc[p].env = f.env0

\* C16: every child starts with the environment its creator has when it forks
\* (so with the assignments made before), no process changes the environment
\* of another one, and a Parallel or Pipe node returns with the environment of
\* the process as it was before the node.
C16_EnvInheritance == [][EnvStep]_vars /\ []NodeKeepsEnv

\* C16 witness: after the assignment a=b, a process waits for the branches of a
\* Parallel or Pipe node; the left branch has executed a=c in its own
\* environment, the right branch runs an external program with a=b.
C16_Witness ==
    \E p \in Pids : \E f \in Frames(p) :
        /\ OpOf(f) \in {"OP_PARALLEL", "OP_PIPE"}
        /\ f.pc \in {"wait_left", "wait_right"}
        /\ proc[p].env = {<<"a", "b">>}
        /\ proc[f.pid_left].st = "run" /\ proc[f.pid_left].env = {<<"a", "c">>}
        /\ \E q \in Branch(f.pid_right) :
                proc[q].st = "prog" /\ proc[q].env = {<<"a", "b">>}

\* The exit status of a child whose execvp failed: exit(r) with r = -1.
ExecFailed(c) == proc[c].status = Status(TRUE, (-1) % 256)

\* C17: when parse_simple returns for an external command in the process that
\* called it, that process has forked at most one child for it; without a child
\* (fork failed) the result is 1; with a child, waitpid was called on it, and
\* the result is 1 when waitpid failed, the exit code when the child ended
\* normally (nonzero when execvp failed), and 1 when it was killed.
C17_ExternalStatus ==
    \A p \in Pids : \A f \in Frames(p) :
        (SimpleReturning(p, f) /\ IsExternal(GetNode(tree, f.path).scmd.verb)) =>
            IF f.pid = 0
            THEN ChildrenAt(p, f.path) = {} /\ f.r = 1
            ELSE /\ ChildrenAt(p, f.path) = {f.pid}
                 /\ proc[f.pid].waited
                 /\ ~Reaped(f.pid) => f.r = 1
                 /\ (Reaped(f.pid) /\ proc[f.pid].status.exited) =>
                        f.r = proc[f.pid].status.code
                 /\ (Reaped(f.pid) /\ ~proc[f.pid].status.exited) => f.r = 1
                 /\ (Reaped(f.pid) /\ ExecFailed(f.pid)) => f.r # 0

\* C17 witness: parse_simple returns 1 for an external command whose child was
\* killed by a signal.
C17_Witness ==
    \E p \in Pids : \E f \in Frames(p) :
        /\ SimpleReturning(p, f)
        /\ IsExternal(GetNode(tree, f.path).scmd.verb)
        /\ f.pid # 0
        /\ Reaped(f.pid)
        /\ ~proc[f.pid].status.exited
        /\ f.r = 1
====
